---- MODULE Spec2Model ----
(***************************************************************************)
(* A model of the workflow builder of src/main.py: the session state       *)
(* (workflow_elements, execution_results), the WorkflowElement records,    *)
(* and the handlers that change them: add_element_to_workflow, the delete  *)
(* button, render_element_config (the spec's update_config), the loop of   *)
(* execute_workflow, the clear button, export_workflow and                 *)
(* import_workflow.                                                        *)
(*                                                                         *)
(* Python values are pairs <<kind, text>>: the kind is the Python type     *)
(* name and the text is what str() gives, so <<"str", "a.pdf">> is the     *)
(* string 'a.pdf', <<"NoneType", "None">> is None and <<"list", "[1]">>    *)
(* is the list [1].  JSON values are pairs <<kind, text>> with the JSON    *)
(* kinds string, integer, real (the two spellings of a number), true,      *)
(* false, null, array and object.  A dict is a function from its keys to   *)
(* values.                                                                 *)
(*                                                                         *)
(* The script runs one handler at a time, so no handler runs while         *)
(* execute_workflow is in its loop.  Every rerun of the script clears the  *)
(* page, so the handlers that end in st.rerun(), and a widget change,      *)
(* leave no message.                                                       *)
(***************************************************************************)
EXTENDS Integers, Sequences, FiniteSets, TLC

VARIABLES
    workflow_elements,   \* st.session_state.workflow_elements: a list of WorkflowElement
    execution_results,   \* st.session_state.execution_results: dict id -> result
    uuid_count,          \* how many ids uuid.uuid4() has produced so far
    pc,                  \* where execute_workflow is: "idle", "for" (loop head), "try" (loop body)
    i,                   \* execute_workflow's loop index (1-based)
    results,             \* execute_workflow's local results dict
    message              \* the last outcome a handler reported (st.success, st.warning, st.error, an uncaught exception)

vars == <<workflow_elements, execution_results, uuid_count, pc, i, results, message>>

----------------------------------------------------------------------------
(* Bounds of the model *)

\* uuid.uuid4() is called at most this many times
MaxUuid == 2

\* workflow_elements, and the element list of an imported document, hold at most this
\* many elements
MaxLen == 2

\* where the palette and the removal of elements are taken alone, uuid.uuid4() is
\* called at most this many times
MaxAdds == 3

----------------------------------------------------------------------------
(* Python values *)

PyStr(s) == <<"str", s>>

PyNone == <<"NoneType", "None">>

\* bool(v): None, '' and 0 are falsy
Truthy(v) == v \notin {PyNone, <<"str", "">>, <<"int", "0">>, <<"float", "0.0">>, <<"bool", "False">>, <<"list", "[]">>}

\* hash(v) raises TypeError for lists and dicts
Hashable(v) == v[1] \notin {"list", "dict"}

\* str(v), as an f-string formats v
Format(v) == v[2]

\* {}
EmptyDict == [k \in {} |-> PyNone]

\* d[k] = v
DictSet(d, k, v) == [x \in (DOMAIN d) \cup {k} |-> IF x = k THEN v ELSE d[x]]

\* d.get(k, default)
DictGet(d, k, default) == IF k \in DOMAIN d THEN d[k] ELSE default

\* str(uuid.uuid4()): the n-th id drawn; two draws never agree
Uuid4(n) == <<"str", "uuid-" \o ToString(n)>>

----------------------------------------------------------------------------
(* class WorkflowElement *)

\* WorkflowElement.__init__(element_type, element_id), n the next uuid to draw
WorkflowElement(element_type, element_id, n) ==
    [id       |-> IF Truthy(element_id) THEN element_id ELSE Uuid4(n),
     type     |-> element_type,
     position |-> [x |-> 0, y |-> 0],
     config   |-> EmptyDict,
     status   |-> "pending",
     output   |-> PyNone]

\* the element types of the palette
element_types ==
    {"pdf_upload", "text_input", "number_input", "date_input", "checkbox",
     "slider", "selectbox", "conditional", "loop", "data_display", "chart",
     "save_data", "api_call", "email", "timer"}

\* the palette buttons pressed in the model: the types with a readiness rule of their own
\* (the other branches of execute_workflow are reached by imported elements)
PaletteSample ==
    {"pdf_upload", "text_input", "conditional", "api_call", "email"}

Init ==
    /\ workflow_elements = <<>>
    /\ execution_results = EmptyDict
    /\ uuid_count = 0
    /\ pc = "idle"
    /\ i = 0
    /\ results = EmptyDict
    /\ message = "none"

\* add_element_to_workflow with insert(0, element) for append(element)
add_element_at_front(element_type) ==
    /\ pc = "idle"
    /\ LET element == [WorkflowElement(element_type, PyNone, uuid_count + 1)
                         EXCEPT !.position = [x |-> Len(workflow_elements) * 100, y |-> 50]]
       IN workflow_elements' = <<element>> \o workflow_elements
    /\ uuid_count' = uuid_count + 1
    /\ message' = "none"
    /\ UNCHANGED <<execution_results, pc, i, results>>

\* add_element_to_workflow(element_type), called by a palette button
add_element_to_workflow(element_type) ==
    /\ pc = "idle"
    /\ LET element == [WorkflowElement(element_type, PyNone, uuid_count + 1)
                         EXCEPT !.position = [x |-> Len(workflow_elements) * 100, y |-> 50]]
       IN workflow_elements' = Append(workflow_elements, element)
    /\ uuid_count' = uuid_count + 1
    /\ message' = "none"
    /\ UNCHANGED <<execution_results, pc, i, results>>

\* the delete button of render_workflow_element: workflow_elements.pop(index),
\* index (1-based here) the element's place in the list being rendered
delete_button(index) ==
    /\ pc = "idle"
    /\ index \in 1..Len(workflow_elements)
    /\ workflow_elements' = [k \in 1..(Len(workflow_elements) - 1) |->
                               IF k < index THEN workflow_elements[k] ELSE workflow_elements[k + 1]]
    /\ message' = "none"
    /\ UNCHANGED <<execution_results, uuid_count, pc, i, results>>

\* the indexes list.pop is given where the caller chooses them, as Python counts them:
\* from 0, a negative index from the end of the list
PopIndexes == (0 - MaxLen - 1)..MaxLen

\* the place, counted from 1, of the element list.pop(index) removes
pop_position(elements, index) ==
    IF index < 0 THEN Len(elements) + index + 1 ELSE index + 1

\* workflow_elements.pop(index) for an index of the caller's choice: IndexError, raised
\* before the list is touched, when the index is outside -len..len-1
pop(index) ==
    /\ pc = "idle"
    /\ IF pop_position(workflow_elements, index) \in 1..Len(workflow_elements)
       THEN /\ workflow_elements' =
                 [k \in 1..(Len(workflow_elements) - 1) |->
                    IF k < pop_position(workflow_elements, index)
                    THEN workflow_elements[k] ELSE workflow_elements[k + 1]]
            /\ message' = "none"
       ELSE /\ workflow_elements' = workflow_elements
            /\ message' = "IndexError: pop index out of range"
    /\ UNCHANGED <<execution_results, uuid_count, pc, i, results>>

\* the Clear button with the assignment to execution_results left out
clear_workflow_keeps_results ==
    /\ pc = "idle"
    /\ workflow_elements' = <<>>
    /\ message' = "none"
    /\ UNCHANGED <<execution_results, uuid_count, pc, i, results>>

\* the Clear button of create_element_palette
clear_workflow ==
    /\ pc = "idle"
    /\ workflow_elements' = <<>>
    /\ execution_results' = EmptyDict
    /\ message' = "none"
    /\ UNCHANGED <<uuid_count, pc, i, results>>

----------------------------------------------------------------------------
(* render_element_config: the form of one element writes the widgets'      *)
(* values into the element's config and recomputes its status              *)

\* the values the widgets of an element of the given type can hold
Widgets(element_type) ==
    CASE element_type = "pdf_upload" ->
           [uploaded_file : {PyNone, PyStr("a.pdf")}]
      [] element_type = "text_input" ->
           [label : {PyStr("Enter text")}, value : {PyStr(""), PyStr("a")}]
      [] element_type = "number_input" ->
           [label : {PyStr("Enter number")}, value : {<<"float", "0.0">>}]
      [] element_type = "date_input" ->
           [label : {PyStr("Select date")}, value : {<<"date", "2024-01-01">>}]
      [] element_type = "checkbox" ->
           [label : {PyStr("Check option")}, value : {<<"bool", "False">>}]
      [] element_type = "slider" ->
           [label : {PyStr("Select value")}, min_val : {<<"int", "0">>},
            max_val : {<<"int", "100">>}, value : {<<"int", "0">>}]
      [] element_type = "selectbox" ->
           [label : {PyStr("Choose option")},
            options : {<<"list", "['Option 1']">>, <<"list", "[]">>},
            value : {PyStr("Option 1")}]
      [] element_type = "conditional" ->
           [condition_type : {PyStr("equals")},
            condition_value : {PyStr(""), PyStr("c")},
            true_action : {PyStr("X")},
            false_action : {PyStr("Y")}]
      [] element_type = "data_display" ->
           [display_type : {PyStr("table")}]
      [] element_type = "chart" ->
           [chart_type : {PyStr("line")}]
      [] element_type = "api_call" ->
           [url : {PyStr(""), PyStr("http://h")}, method : {PyStr("GET")},
            headers : {PyStr("{}")}]
      [] element_type = "email" ->
           [recipient : {PyStr(""), PyStr("r@h")}, subject : {PyStr(""), PyStr("s")},
            body : {PyStr("")}]
      [] OTHER -> {EmptyDict}

\* the element after render_element_config(element, index) has read the widget values w
render_element_config(element, w) ==
    CASE element.type = "pdf_upload" ->
           IF Truthy(w.uploaded_file)
           THEN [element EXCEPT
                   !.config = DictSet(DictSet(element.config, "filename", w.uploaded_file),
                                      "size", <<"int", "1">>),
                   !.status = "ready"]
           ELSE element
      [] element.type = "text_input" ->
           [element EXCEPT
              !.config = [label |-> w.label, value |-> w.value],
              !.status = IF Truthy(w.value) THEN "ready" ELSE element.status]
      [] element.type = "number_input" ->
           [element EXCEPT
              !.config = [label |-> w.label, value |-> w.value],
              !.status = "ready"]
      [] element.type = "date_input" ->
           [element EXCEPT
              !.config = [label |-> w.label, value |-> PyStr(Format(w.value))],
              !.status = "ready"]
      [] element.type = "checkbox" ->
           [element EXCEPT
              !.config = [label |-> w.label, value |-> w.value],
              !.status = "ready"]
      [] element.type = "slider" ->
           [element EXCEPT
              !.config = [label |-> w.label, min |-> w.min_val, max |-> w.max_val,
                          value |-> w.value],
              !.status = "ready"]
      [] element.type = "selectbox" ->
           IF Truthy(w.options)
           THEN [element EXCEPT
                   !.config = [label |-> w.label, options |-> w.options, value |-> w.value],
                   !.status = "ready"]
           ELSE element
      [] element.type = "conditional" ->
           [element EXCEPT
              !.config = [condition_type |-> w.condition_type,
                          condition_value |-> w.condition_value,
                          true_action |-> w.true_action,
                          false_action |-> w.false_action],
              !.status = IF Truthy(w.condition_value) THEN "ready" ELSE "pending"]
      [] element.type = "data_display" ->
           [element EXCEPT
              !.config = [display_type |-> w.display_type],
              !.status = "ready"]
      [] element.type = "chart" ->
           [element EXCEPT
              !.config = [chart_type |-> w.chart_type],
              !.status = "ready"]
      [] element.type = "api_call" ->
           [element EXCEPT
              !.config = [url |-> w.url, method |-> w.method, headers |-> w.headers],
              !.status = IF Truthy(w.url) THEN "ready" ELSE "pending"]
      [] element.type = "email" ->
           [element EXCEPT
              !.config = [recipient |-> w.recipient, subject |-> w.subject, body |-> w.body],
              !.status = IF Truthy(w.recipient) /\ Truthy(w.subject) THEN "ready" ELSE "pending"]
      [] OTHER -> element

\* update_config with the email rule written "recipient or subject"
update_config_email_or(index, w) ==
    /\ pc = "idle"
    /\ index \in 1..Len(workflow_elements)
    /\ LET element == workflow_elements[index]
           rendered == render_element_config(element, w)
       IN workflow_elements' = [workflow_elements EXCEPT
            ![index] = IF element.type = "email"
                       THEN [rendered EXCEPT
                               !.status = IF Truthy(w.recipient) \/ Truthy(w.subject)
                                          THEN "ready" ELSE "pending"]
                       ELSE rendered]
    /\ message' = "none"
    /\ UNCHANGED <<execution_results, uuid_count, pc, i, results>>

\* update_config with a pdf_upload form that sets error while no file is uploaded
update_config_pdf_error(index, w) ==
    /\ pc = "idle"
    /\ index \in 1..Len(workflow_elements)
    /\ LET element == workflow_elements[index]
           rendered == render_element_config(element, w)
       IN workflow_elements' = [workflow_elements EXCEPT
            ![index] = IF element.type = "pdf_upload" /\ ~Truthy(w.uploaded_file)
                       THEN [rendered EXCEPT !.status = "error"]
                       ELSE rendered]
    /\ message' = "none"
    /\ UNCHANGED <<execution_results, uuid_count, pc, i, results>>

\* update_config: the form of the element at index is rendered with widget values w
update_config(index, w) ==
    /\ pc = "idle"
    /\ index \in 1..Len(workflow_elements)
    /\ workflow_elements' = [workflow_elements EXCEPT
                               ![index] = render_element_config(workflow_elements[index], w)]
    /\ message' = "none"
    /\ UNCHANGED <<execution_results, uuid_count, pc, i, results>>

----------------------------------------------------------------------------
(* execute_workflow: the Run button.  The loop is one step per loop head   *)
(* (the element becomes processing) and one per loop body (the try         *)
(* statement with its except handler).                                     *)

ValueTypes == {"text_input", "number_input", "date_input", "checkbox", "slider", "selectbox"}

\* the body of the try statement with a pdf_upload branch that sets ready on both paths
execute_element_pdf_always_ready(element) ==
    CASE element.type = "pdf_upload" ->
           IF "filename" \in DOMAIN element.config
           THEN [raised |-> FALSE, status |-> "ready",
                 result |-> PyStr("PDF processed: " \o Format(element.config["filename"]))]
           ELSE [raised |-> FALSE, status |-> "ready", result |-> PyStr("No PDF uploaded")]
      [] element.type \in ValueTypes ->
           [raised |-> FALSE, status |-> "ready",
            result |-> DictGet(element.config, "value", PyStr("No value"))]
      [] element.type = "conditional" ->
           IF "true_action" \in DOMAIN element.config
           THEN [raised |-> FALSE, status |-> "ready",
                 result |-> PyStr("Executed: " \o Format(element.config["true_action"]))]
           ELSE [raised |-> TRUE, status |-> "processing", result |-> PyStr("'true_action'")]
      [] element.type = "data_display" ->
           [raised |-> FALSE, status |-> "ready", result |-> PyStr("Data displayed successfully")]
      [] element.type = "api_call" ->
           [raised |-> FALSE, status |-> "ready",
            result |-> PyStr("API call to " \o Format(DictGet(element.config, "url", PyStr("undefined")))
                             \o " completed")]
      [] element.type = "email" ->
           [raised |-> FALSE, status |-> "ready",
            result |-> PyStr("Email sent to " \o Format(DictGet(element.config, "recipient", PyStr("undefined"))))]
      [] OTHER ->
           [raised |-> FALSE, status |-> "ready",
            result |-> PyStr(element.type \o " executed successfully")]

\* the body of the try statement for one element: the status it sets and the result it
\* computes; raised when an exception left the try block before either was set
execute_element(element) ==
    CASE element.type = "pdf_upload" ->
           IF "filename" \in DOMAIN element.config
           THEN [raised |-> FALSE, status |-> "ready",
                 result |-> PyStr("PDF processed: " \o Format(element.config["filename"]))]
           ELSE [raised |-> FALSE, status |-> "error", result |-> PyStr("No PDF uploaded")]
      [] element.type \in ValueTypes ->
           [raised |-> FALSE, status |-> "ready",
            result |-> DictGet(element.config, "value", PyStr("No value"))]
      [] element.type = "conditional" ->
           IF "true_action" \in DOMAIN element.config
           THEN [raised |-> FALSE, status |-> "ready",
                 result |-> PyStr("Executed: " \o Format(element.config["true_action"]))]
           ELSE [raised |-> TRUE, status |-> "processing", result |-> PyStr("'true_action'")]
      [] element.type = "data_display" ->
           [raised |-> FALSE, status |-> "ready", result |-> PyStr("Data displayed successfully")]
      [] element.type = "api_call" ->
           [raised |-> FALSE, status |-> "ready",
            result |-> PyStr("API call to " \o Format(DictGet(element.config, "url", PyStr("undefined")))
                             \o " completed")]
      [] element.type = "email" ->
           [raised |-> FALSE, status |-> "ready",
            result |-> PyStr("Email sent to " \o Format(DictGet(element.config, "recipient", PyStr("undefined"))))]
      [] OTHER ->
           [raised |-> FALSE, status |-> "ready",
            result |-> PyStr(element.type \o " executed successfully")]

\* the except handler: the status and the result it records for an exception with message msg
except_handler(msg) ==
    [status |-> "error", result |-> PyStr("Error: " \o msg)]

\* the Run button on an empty workflow: a warning and nothing else
execute_workflow_empty ==
    /\ pc = "idle"
    /\ workflow_elements = <<>>
    /\ message' = "No workflow elements to execute!"
    /\ UNCHANGED <<workflow_elements, execution_results, uuid_count, pc, i, results>>

\* the Run button: results = {} and the loop starts
execute_workflow_start ==
    /\ pc = "idle"
    /\ workflow_elements # <<>>
    /\ results' = EmptyDict
    /\ i' = 1
    /\ pc' = "for"
    /\ message' = "Executing workflow..."
    /\ UNCHANGED <<workflow_elements, execution_results, uuid_count>>

\* the loop head: the next element becomes processing
execute_workflow_for ==
    /\ pc = "for"
    /\ i <= Len(workflow_elements)
    /\ workflow_elements' = [workflow_elements EXCEPT ![i].status = "processing"]
    /\ pc' = "try"
    /\ UNCHANGED <<execution_results, uuid_count, i, results, message>>

\* the loop body without its assignments to element.status
execute_workflow_try_no_status ==
    /\ pc = "try"
    /\ LET element == workflow_elements[i]
           body == execute_element(element)
           done == IF body.raised THEN except_handler(Format(body.result)) ELSE body
       IN IF Hashable(element.id)
          THEN /\ results' = DictSet(results, element.id, done.result)
               /\ i' = i + 1
               /\ pc' = "for"
               /\ UNCHANGED message
          ELSE /\ results' = EmptyDict
               /\ i' = 0
               /\ pc' = "idle"
               /\ message' = "TypeError: unhashable type"
    /\ UNCHANGED <<workflow_elements, execution_results, uuid_count>>

\* the loop body storing the result in element.output as well
execute_workflow_try_sets_output ==
    /\ pc = "try"
    /\ LET element == workflow_elements[i]
           body == execute_element(element)
           done == IF body.raised THEN except_handler(Format(body.result)) ELSE body
       IN IF Hashable(element.id)
          THEN /\ workflow_elements' = [workflow_elements EXCEPT ![i].status = done.status,
                                                                ![i].output = done.result]
               /\ results' = DictSet(results, element.id, done.result)
               /\ i' = i + 1
               /\ pc' = "for"
               /\ UNCHANGED message
          ELSE /\ workflow_elements' = [workflow_elements EXCEPT ![i].status = "error"]
               /\ results' = EmptyDict
               /\ i' = 0
               /\ pc' = "idle"
               /\ message' = "TypeError: unhashable type"
    /\ UNCHANGED <<execution_results, uuid_count>>

\* the loop body: results[element.id] and element.status are set by the try block or, when
\* it raises, by the except handler.  results[element.id] = ... raises TypeError for an
\* unhashable id, in the try block and again in the handler, after the handler has set
\* the status: that exception leaves execute_workflow
execute_workflow_try ==
    /\ pc = "try"
    /\ LET element == workflow_elements[i]
           body == execute_element(element)
           done == IF body.raised THEN except_handler(Format(body.result)) ELSE body
       IN IF Hashable(element.id)
          THEN /\ workflow_elements' = [workflow_elements EXCEPT ![i].status = done.status]
               /\ results' = DictSet(results, element.id, done.result)
               /\ i' = i + 1
               /\ pc' = "for"
               /\ UNCHANGED message
          ELSE /\ workflow_elements' = [workflow_elements EXCEPT ![i].status = "error"]
               /\ results' = EmptyDict
               /\ i' = 0
               /\ pc' = "idle"
               /\ message' = "TypeError: unhashable type"
    /\ UNCHANGED <<execution_results, uuid_count>>

\* after the loop: the results are stored and the run is reported complete
execute_workflow_end ==
    /\ pc = "for"
    /\ i > Len(workflow_elements)
    /\ execution_results' = results
    /\ results' = EmptyDict
    /\ i' = 0
    /\ pc' = "idle"
    /\ message' = "Workflow execution completed!"
    /\ UNCHANGED <<workflow_elements, uuid_count>>

execute_workflow ==
    \/ execute_workflow_empty
    \/ execute_workflow_start
    \/ execute_workflow_for
    \/ execute_workflow_try
    \/ execute_workflow_end

----------------------------------------------------------------------------
(* export_workflow and import_workflow *)

\* json.dumps of a value
json_dumps(v) ==
    CASE v[1] = "str" -> <<"string", v[2]>>
      [] v[1] = "int" -> <<"integer", v[2]>>
      [] v[1] = "float" -> <<"real", v[2]>>
      [] v[1] = "bool" -> IF v[2] = "True" THEN <<"true", "true">> ELSE <<"false", "false">>
      [] v[1] = "NoneType" -> <<"null", "null">>
      [] v[1] \in {"list", "tuple"} -> <<"array", v[2]>>
      [] v[1] = "dict" -> <<"object", v[2]>>
      [] OTHER -> <<"TypeError", v[2]>>

\* json.load of a value
json_load(j) ==
    CASE j[1] = "string" -> <<"str", j[2]>>
      [] j[1] = "integer" -> <<"int", j[2]>>
      [] j[1] = "real" -> <<"float", j[2]>>
      [] j[1] = "true" -> <<"bool", "True">>
      [] j[1] = "false" -> <<"bool", "False">>
      [] j[1] = "null" -> PyNone
      [] j[1] = "array" -> <<"list", j[2]>>
      [] j[1] = "object" -> <<"dict", j[2]>>
      [] OTHER -> <<"JSONDecodeError", j[2]>>

\* to_dict without the element's status: the dict carries the initial status
to_dict_without_status(element) ==
    [id       |-> element.id,
     type     |-> element.type,
     position |-> element.position,
     config   |-> element.config,
     status   |-> "pending",
     output   |-> element.output]

\* WorkflowElement.to_dict
to_dict(element) ==
    [id       |-> element.id,
     type     |-> element.type,
     position |-> element.position,
     config   |-> element.config,
     status   |-> element.status,
     output   |-> element.output]

\* the JSON text of one element's dict: strings and integers are written as they are
json_dumps_dict(d) ==
    [id       |-> json_dumps(d.id),
     type     |-> d.type,
     position |-> d.position,
     config   |-> [k \in DOMAIN d.config |-> json_dumps(d.config[k])],
     status   |-> d.status,
     output   |-> json_dumps(d.output)]

\* the dict json.load makes of one element of the JSON text
json_load_dict(j) ==
    [id       |-> json_load(j.id),
     type     |-> j.type,
     position |-> j.position,
     config   |-> [k \in DOMAIN j.config |-> json_load(j.config[k])],
     status   |-> j.status,
     output   |-> json_load(j.output)]

\* export_workflow: the JSON text offered for download
export_workflow ==
    [elements   |-> [k \in 1..Len(workflow_elements) |-> json_dumps_dict(to_dict(workflow_elements[k]))],
     created_at |-> "2024-01-01T00:00:00",
     version    |-> "1.0"]

\* json.load(uploaded_file).get('elements', []) for a file export_workflow wrote
load_elements(json_text) ==
    [k \in 1..Len(json_text.elements) |-> json_load_dict(json_text.elements[k])]

\* element_data['type'] or element_data['id'] raises KeyError
Malformed(element_data) ==
    "type" \notin DOMAIN element_data \/ "id" \notin DOMAIN element_data

\* the place of the first element of the document that raises, Len + 1 when none does
FirstMalformed(elements) ==
    IF \E k \in 1..Len(elements) : Malformed(elements[k])
    THEN CHOOSE k \in 1..Len(elements) :
           Malformed(elements[k]) /\ \A j \in 1..(k - 1) : ~Malformed(elements[j])
    ELSE Len(elements) + 1

\* how many of the elements before place k draw a uuid (their id is null or empty)
UuidsBefore(elements, k) ==
    Cardinality({j \in 1..(k - 1) : ~Truthy(elements[j]["id"])})

\* one pass of import_workflow's loop: the element built from element_data
element_from_dict(element_data, n) ==
    [WorkflowElement(element_data["type"], element_data["id"], n) EXCEPT
       !.position = DictGet(element_data, "position", [x |-> 0, y |-> 0]),
       !.config   = DictGet(element_data, "config", EmptyDict),
       !.status   = DictGet(element_data, "status", "pending"),
       !.output   = DictGet(element_data, "output", PyNone)]

\* the list import_workflow leaves in workflow_elements: the elements before the first
\* malformed one
imported_elements(elements) ==
    [k \in 1..(FirstMalformed(elements) - 1) |->
       element_from_dict(elements[k], uuid_count + UuidsBefore(elements, k) + 1)]

\* import_workflow reporting success whether or not an element raised
import_workflow_reports_success(elements) ==
    /\ pc = "idle"
    /\ uuid_count + UuidsBefore(elements, FirstMalformed(elements)) <= MaxUuid
    /\ workflow_elements' = imported_elements(elements)
    /\ uuid_count' = uuid_count + UuidsBefore(elements, FirstMalformed(elements))
    /\ message' = "Workflow imported successfully!"
    /\ UNCHANGED <<execution_results, pc, i, results>>

\* import_workflow building the list aside and assigning it only when no element raised
import_workflow_keeps_on_error(elements) ==
    /\ pc = "idle"
    /\ uuid_count + UuidsBefore(elements, FirstMalformed(elements)) <= MaxUuid
    /\ workflow_elements' = IF FirstMalformed(elements) > Len(elements)
                            THEN imported_elements(elements)
                            ELSE workflow_elements
    /\ uuid_count' = uuid_count + UuidsBefore(elements, FirstMalformed(elements))
    /\ message' = IF FirstMalformed(elements) > Len(elements)
                  THEN "Workflow imported successfully!"
                  ELSE "Error importing workflow"
    /\ UNCHANGED <<execution_results, pc, i, results>>

\* import_workflow(uploaded_file), elements the list json.load found under 'elements'
import_workflow(elements) ==
    /\ pc = "idle"
    /\ uuid_count + UuidsBefore(elements, FirstMalformed(elements)) <= MaxUuid
    /\ workflow_elements' = imported_elements(elements)
    /\ uuid_count' = uuid_count + UuidsBefore(elements, FirstMalformed(elements))
    /\ message' = IF FirstMalformed(elements) > Len(elements)
                  THEN "Workflow imported successfully!"
                  ELSE "Error importing workflow"
    /\ UNCHANGED <<execution_results, pc, i, results>>

\* elements of hand-written documents, as json.load returns them
ImportEntries ==
    <<[id |-> PyStr("a"), type |-> "conditional", status |-> "done"],
      [id |-> PyStr("a"), type |-> "pdf_upload", position |-> [x |-> 7, y |-> 7],
       config |-> [filename |-> PyStr("b.pdf")], status |-> "processing",
       output |-> PyStr("o")],
      [type |-> "loop"],
      [id |-> PyStr("b")],
      [id |-> <<"list", "[1]">>, type |-> "text_input"],
      [id |-> PyNone, type |-> "timer"]>>

\* the element lists of the documents imported
Documents ==
    UNION {[1..n -> 1..Len(ImportEntries)] : n \in 0..MaxLen}

\* a hand-written document is imported
import_document ==
    \E doc \in Documents :
      import_workflow([k \in DOMAIN doc |-> ImportEntries[doc[k]]])

\* the exported document is imported back
import_exported ==
    import_workflow(load_elements(export_workflow))

\* a palette button is pressed
add_element ==
    /\ uuid_count < MaxUuid
    /\ Len(workflow_elements) < MaxLen
    /\ \E t \in PaletteSample : add_element_to_workflow(t)

\* the delete button of one of the elements is pressed
remove_element ==
    \E index \in 1..Len(workflow_elements) : delete_button(index)

\* the user changes the widgets of one of the elements
change_widgets ==
    \E index \in 1..Len(workflow_elements) :
      \E w \in Widgets(workflow_elements[index].type) : update_config(index, w)

Next ==
    \/ add_element
    \/ remove_element
    \/ clear_workflow
    \/ change_widgets
    \/ execute_workflow
    \/ import_document
    \/ import_exported

Spec == Init /\ [][Next]_vars

\* the palette buttons alone, from the empty workflow
NextAdd ==
    /\ uuid_count < MaxUuid
    /\ Len(workflow_elements) < MaxLen
    /\ \E t \in element_types : add_element_to_workflow(t)

SpecAdd == Init /\ [][NextAdd]_vars

\* the palette, the Run button and the import of hand-written documents taken alone
NextImport ==
    \/ add_element
    \/ execute_workflow
    \/ import_document

SpecImport == Init /\ [][NextImport]_vars

\* a palette button is pressed, the removal of elements and the palette taken alone
add_element_more ==
    /\ uuid_count < MaxAdds
    /\ Len(workflow_elements) < MaxLen
    /\ \E t \in PaletteSample : add_element_to_workflow(t)

\* workflow_elements.pop is given an index by its caller
remove_element_at ==
    \E index \in PopIndexes : pop(index)

\* the palette buttons, the delete buttons and list.pop with any index
NextAddRemove ==
    \/ add_element_more
    \/ remove_element
    \/ remove_element_at

SpecAddRemove == Init /\ [][NextAddRemove]_vars

----------------------------------------------------------------------------
(* Properties *)

Ids == {workflow_elements[k].id : k \in 1..Len(workflow_elements)}

Terminal(element) == element.status \in {"ready", "error"}

\* the run has ended: it returned, with or without elements, or an exception left it
RunReturned == message \in {"Workflow execution completed!", "No workflow elements to execute!"}

\* C1: once a run has returned, the stored results mapping has exactly one entry per
\* element of the document: its key set is the set of the element ids and it has as
\* many entries as the document has elements, also for the empty document
C1_ResultsCoverDocument ==
    RunReturned =>
      /\ DOMAIN execution_results = Ids
      /\ Cardinality(DOMAIN execution_results) = Len(workflow_elements)

\* C2: no run ends before its last element, and when a run has completed every element
\* of the document is ready or error
C2_RunCompletesOverAll ==
    /\ message # "TypeError: unhashable type"
    /\ message = "Workflow execution completed!" =>
         \A k \in 1..Len(workflow_elements) : Terminal(workflow_elements[k])

\* C3 as stated: while a run processes an element at most one element is processing, and
\* every element before it is ready or error with its result recorded
C3_AtMostOneProcessing ==
    pc = "try" =>
      /\ Cardinality({k \in 1..Len(workflow_elements) :
                        workflow_elements[k].status = "processing"}) <= 1
      /\ \A k \in 1..(i - 1) :
           /\ Terminal(workflow_elements[k])
           /\ workflow_elements[k].id \in DOMAIN results

\* the states of a run: the elements before the loop index are ready or error with a
\* result recorded, and in the loop body the element at the index is the only one up to
\* the index that is processing
RunInOrder ==
    pc # "idle" =>
      /\ i \in 1..(Len(workflow_elements) + 1)
      /\ \A k \in 1..(i - 1) :
           /\ Terminal(workflow_elements[k])
           /\ workflow_elements[k].id \in DOMAIN results
      /\ pc = "try" => workflow_elements[i].status = "processing"

\* the steps of a run: no element other than the one at the loop index changes, and the
\* index moves on by one element at a time
RunStepInOrder ==
    pc # "idle" =>
      /\ Len(workflow_elements') = Len(workflow_elements)
      /\ \A k \in 1..Len(workflow_elements) :
           k # i => workflow_elements'[k] = workflow_elements[k]
      /\ pc' # "idle" => i' \in {i, i + 1}

\* C3, amended: during a run the elements are processed in document order: the element
\* in the loop body is processing, every element before it is ready or error with its
\* result recorded, and no step of the run changes an element after it, which keeps the
\* status it had before the run
C3_RunInDocumentOrder ==
    [](RunInOrder) /\ [][RunStepInOrder]_vars

\* a run is in the body of its second element after the first ended in error
C3_Witness ==
    /\ pc = "try"
    /\ i = 2
    /\ workflow_elements[1].status = "error"
    /\ workflow_elements[2].status = "processing"

\* C4: a failure in the loop body, in computing the result or in recording it, stays with
\* its element: the element becomes error, "Error: <message>" is recorded for it, and
\* the run goes on to the next element
C4_FailureConfined ==
    [][(/\ pc = "try"
        /\ \/ execute_element(workflow_elements[i]).raised
           \/ ~Hashable(workflow_elements[i].id))
       => /\ pc' = "for"
          /\ i' = i + 1
          /\ workflow_elements'[i].status = "error"
          /\ workflow_elements[i].id \in DOMAIN results'
          /\ execute_element(workflow_elements[i]).raised =>
               results'[workflow_elements[i].id] =
                 PyStr("Error: " \o Format(execute_element(workflow_elements[i]).result))]_vars

\* C5: every element's status is pending, ready, processing or error
C5_StatusEnumerated ==
    \A k \in 1..Len(workflow_elements) :
      workflow_elements[k].status \in {"pending", "ready", "processing", "error"}

\* the config fields the type of the element requires are populated
RequiredConfig(element) ==
    LET Filled(key) == key \in DOMAIN element.config /\ Truthy(element.config[key])
    IN CASE element.type = "pdf_upload" -> Filled("filename") /\ "size" \in DOMAIN element.config
         [] element.type = "text_input" -> Filled("value")
         [] element.type = "conditional" -> Filled("condition_value")
         [] element.type = "api_call" -> Filled("url")
         [] element.type = "email" -> Filled("recipient") /\ Filled("subject")
         [] OTHER -> TRUE

\* C6: an element whose status is ready has the config fields its type requires
C6_ReadyHasRequiredConfig ==
    \A k \in 1..Len(workflow_elements) :
      workflow_elements[k].status = "ready" => RequiredConfig(workflow_elements[k])

\* C7: after any sequence of add_element calls from the empty document the ids are
\* pairwise distinct and the elements stand in the order they were added: the k-th
\* element is the k-th one created, with the k-th id drawn and the k-th slot
C7_AddKeepsOrderAndDistinctIds ==
    /\ \A j, k \in 1..Len(workflow_elements) :
         j < k => workflow_elements[j].id # workflow_elements[k].id
    /\ \A k \in 1..Len(workflow_elements) :
         /\ workflow_elements[k].id = Uuid4(k)
         /\ workflow_elements[k].position.x = (k - 1) * 100

\* two elements have been added
C7_Witness ==
    /\ Len(workflow_elements) = 2
    /\ uuid_count = 2
    /\ workflow_elements[1].type # workflow_elements[2].type

IdsUnique ==
    \A j, k \in 1..Len(workflow_elements) :
      j # k => workflow_elements[j].id # workflow_elements[k].id

\* a config update or a step of a run leaves every element its id and its type
IdAndTypeKept ==
    (pc # "idle" \/ change_widgets) =>
      /\ Len(workflow_elements') = Len(workflow_elements)
      /\ \A k \in 1..Len(workflow_elements) :
           /\ workflow_elements'[k].id = workflow_elements[k].id
           /\ workflow_elements'[k].type = workflow_elements[k].type

\* C8: in every reachable state no two elements of the collection share an id, and no
\* operation changes the id or the type of an existing element
C8_IdsUniqueAndFixed ==
    [](IdsUnique) /\ [][IdAndTypeKept]_vars

\* C9: importing the exported document gives the document back: as many elements, in
\* the same order, each with the same id, type, position, config, status and output
C9_ExportImportRoundTrip ==
    imported_elements(load_elements(export_workflow)) = workflow_elements

\* an exported document of two elements, one of them ready with a config, was imported
C9_Witness ==
    /\ message = "Workflow imported successfully!"
    /\ Len(workflow_elements) = 2
    /\ \E k \in 1..2 :
         /\ workflow_elements[k].status = "ready"
         /\ workflow_elements[k].config # EmptyDict
         /\ Truthy(workflow_elements[k].id)
    /\ imported_elements(load_elements(export_workflow)) = workflow_elements

\* the readiness condition of text_input, conditional and api_call on widget values w
ReadinessHolds(element_type, w) ==
    CASE element_type = "text_input" -> Truthy(w.value)
      [] element_type = "conditional" -> Truthy(w.condition_value)
      [] element_type = "api_call" -> Truthy(w.url)

\* C10: update_config of a text_input, conditional or api_call element leaves it ready
\* when the readiness condition holds on the supplied values and pending when it does
\* not, whatever its status was
C10_StatusFollowsReadiness ==
    [][\A index \in 1..Len(workflow_elements) :
         \A w \in Widgets(workflow_elements[index].type) :
           (/\ workflow_elements[index].type \in {"text_input", "conditional", "api_call"}
            /\ update_config(index, w))
           => workflow_elements'[index].status =
                IF ReadinessHolds(workflow_elements[index].type, w) THEN "ready" ELSE "pending"]_vars

\* C11: update_config of an email element with an empty recipient never leaves it ready,
\* whatever the subject and the status before, and update_config with recipient and
\* subject both non-empty always leaves it ready
C11_EmailReadiness ==
    [][\A index \in 1..Len(workflow_elements) :
         \A w \in Widgets(workflow_elements[index].type) :
           (workflow_elements[index].type = "email" /\ update_config(index, w))
           => /\ ~Truthy(w.recipient) => workflow_elements'[index].status # "ready"
              /\ (Truthy(w.recipient) /\ Truthy(w.subject)) =>
                   workflow_elements'[index].status = "ready"]_vars

\* an email element that a run had left ready was given an empty recipient and a
\* subject, and is pending
C11_Witness ==
    \E k \in 1..Len(workflow_elements) :
      /\ workflow_elements[k].type = "email"
      /\ workflow_elements[k].id \in DOMAIN execution_results
      /\ workflow_elements[k].config = [recipient |-> PyStr(""), subject |-> PyStr("s"),
                                        body |-> PyStr("")]
      /\ workflow_elements[k].status = "pending"

C13_ConditionalRun ==
    [][(/\ pc = "try"
        /\ workflow_elements[i].type = "conditional"
        /\ execute_workflow_try)
       => LET element == workflow_elements[i]
          IN /\ workflow_elements'[i].status = "ready"
             /\ element.id \in DOMAIN results'
             /\ "true_action" \in DOMAIN element.config =>
                  results'[element.id] =
                    PyStr("Executed: " \o element.config["true_action"][2])]_vars

DocumentElements(doc) ==
    [k \in DOMAIN doc |-> ImportEntries[doc[k]]]

\* the element at place k of the document doc lacks id or type
Lacks(doc, k) ==
    {"id", "type"} \ DOMAIN ImportEntries[doc[k]] # {}

\* C15: the import of a document in which some element lacks id or type reports an
\* error, wherever that element sits; it never reports success, and the failure does
\* not leave the handler
C15_MalformedImportReported ==
    [][\A doc \in Documents :
         ((\E k \in DOMAIN doc : Lacks(doc, k))
          /\ import_workflow(DocumentElements(doc)))
         => /\ message' = "Error importing workflow"
            /\ message' # "Workflow imported successfully!"
            /\ pc' = "idle"]_vars

\* an import has reported an error for a document whose second element is the
\* malformed one
C15_Witness ==
    /\ message = "Error importing workflow"
    /\ Len(workflow_elements) = 1

\* the element at place k is in error after the step and no element of its id was in
\* error before it
EntersError(k) ==
    /\ workflow_elements'[k].status = "error"
    /\ \A j \in 1..Len(workflow_elements) :
         workflow_elements[j].id = workflow_elements'[k].id =>
           workflow_elements[j].status # "error"

C17_ResultsRebuiltByRun ==
    RunReturned => DOMAIN execution_results \subseteq Ids

\* C18: clear leaves the workflow empty and the stored results empty, from every
\* state in which it is pressed
C18_ClearEmptiesBoth ==
    [][clear_workflow =>
         /\ Len(workflow_elements') = 0
         /\ DOMAIN execution_results' = {}]_vars

\* the workflow and the stored results are empty, and no message is shown, after
\* elements had been created
C18_Witness ==
    /\ uuid_count > 0
    /\ workflow_elements = <<>>
    /\ execution_results = EmptyDict
    /\ message = "none"

\* C19: add_element appends an element with status pending, an empty config and a
\* position x strictly greater than the x of every element already in the workflow,
\* after any sequence of additions and removals
C19_AddedAfterAll ==
    [][\A t \in PaletteSample :
         add_element_to_workflow(t) =>
           LET n == Len(workflow_elements)
               element == workflow_elements'[n + 1]
           IN /\ Len(workflow_elements') = n + 1
              /\ \A k \in 1..n : workflow_elements'[k] = workflow_elements[k]
              /\ element.status = "pending"
              /\ element.config = EmptyDict
              /\ \A k \in 1..n : element.position.x > workflow_elements[k].position.x]_vars

\* the element at place k of the workflow after the step is the one the entry at
\* place k of the document doc describes
BuiltFrom(doc, k) ==
    LET entry == ImportEntries[doc[k]]
        element == workflow_elements'[k]
    IN /\ element.type = entry.type
       /\ Truthy(entry.id) => element.id = entry.id
       /\ element.position = DictGet(entry, "position", [x |-> 0, y |-> 0])
       /\ element.config = DictGet(entry, "config", EmptyDict)
       /\ element.status = DictGet(entry, "status", "pending")
       /\ element.output = DictGet(entry, "output", PyNone)

\* C20: when an import fails on a malformed element the elements from before are not
\* restored: the workflow is then exactly the elements built from the entries before
\* the first malformed one, in their order, and the stored results are as they were
C20_FailedImportKeepsPrefix ==
    [][\A doc \in Documents :
         ((\E k \in DOMAIN doc : Lacks(doc, k))
          /\ import_workflow(DocumentElements(doc)))
         => LET first == CHOOSE k \in DOMAIN doc :
                           Lacks(doc, k) /\ \A j \in 1..(k - 1) : ~Lacks(doc, j)
            IN /\ Len(workflow_elements') = first - 1
               /\ \A k \in 1..(first - 1) : BuiltFrom(doc, k)
               /\ execution_results' = execution_results]_vars

\* an import has failed at its second element: the workflow is the one element of the
\* document and the stored results are those of an element that is no longer there
C20_Witness ==
    /\ message = "Error importing workflow"
    /\ Len(workflow_elements) = 1
    /\ workflow_elements[1].id = PyStr("a")
    /\ DOMAIN execution_results = {Uuid4(1)}

\* the element without its status
WithoutStatus(element) ==
    [id |-> element.id, type |-> element.type, position |-> element.position,
     config |-> element.config, output |-> element.output]

\* C21: a run changes only the status of the elements and the stored results: every
\* step of a run keeps the number and the order of the elements and the id, type,
\* position, config and output of each, so an output that no import supplied stays None
C21_RunFrame ==
    [][execute_workflow =>
         /\ Len(workflow_elements') = Len(workflow_elements)
         /\ \A k \in 1..Len(workflow_elements) :
              WithoutStatus(workflow_elements'[k]) = WithoutStatus(workflow_elements[k])
         /\ uuid_count' = uuid_count]_vars

\* a completed run over an imported element and an added one: the run has set the
\* status of both and stored their results, the imported position and output are as
\* the document gave them and the output of the added element is still None
C21_Witness ==
    /\ message = "Workflow execution completed!"
    /\ Len(workflow_elements) = 2
    /\ workflow_elements[1].id = PyStr("a")
    /\ workflow_elements[1].position = [x |-> 7, y |-> 7]
    /\ workflow_elements[1].output = PyStr("o")
    /\ workflow_elements[1].status = "ready"
    /\ workflow_elements[2].id = Uuid4(1)
    /\ workflow_elements[2].position = [x |-> 100, y |-> 50]
    /\ workflow_elements[2].output = PyNone
    /\ Terminal(workflow_elements[2])
    /\ DOMAIN execution_results = Ids
====
